---- MODULE Spec2Model ----
(***************************************************************************)
(* Construction of the two FIRe-GAN generators (Models/fire_gan.py).       *)
(* Layers are records holding the arguments given to their constructors;   *)
(* every constructed layer object gets an identity (id) from an allocation *)
(* counter.  Tensors are shapes <<height, width, channels>>.  A Python     *)
(* session calls the four module functions one after the other; the        *)
(* outcome of every call is kept in results.                               *)
(***************************************************************************)
EXTENDS Integers, Sequences, FiniteSets, TLC

\* number of calls one session makes
MaxCalls == 2

\* arguments the session passes to downsample / upsample when it calls them
\* directly
FilterArgs == {64, 512}
SizeArgs == {4}

Min(a, b) == IF a <= b THEN a ELSE b
Max(a, b) == IF a >= b THEN a ELSE b

----------------------------------------------------------------------------
(* Layer objects.  param is the explicit numeric argument in tenths        *)
(* (alpha of LeakyReLU, rate of Dropout), 0 when none is given.            *)

Layer(kind, filters, size, strides, padding, use_bias, init, activation, param) ==
    [kind |-> kind, filters |-> filters, size |-> size, strides |-> strides,
     padding |-> padding, use_bias |-> use_bias, init |-> init,
     activation |-> activation, param |-> param, wrap |-> "none", id |-> 0]

Plain(kind, param) ==
    Layer(kind, 0, 0, 0, "none", FALSE, "none", "none", param)

NoLayer == Plain("none", 0)

\* SpectralNormalization(layer)
SpectralNormalization(layer) == [layer EXCEPT !.wrap = "SpectralNormalization"]

\* the names bound in the module's namespace by its import statements
ModuleNames ==
    {"tf", "keras", "Conv2D", "BatchNormalization", "Conv2DTranspose", "LeakyReLU"}

\* layer objects get consecutive identities in the order of construction
AssignIds(cfgs, base) ==
    [k \in 1..Len(cfgs) |-> [cfgs[k] EXCEPT !.id = base + k]]

IsConv(l) == l.kind \in {"Conv2D", "Conv2DTranspose"}

----------------------------------------------------------------------------
(* Shape arithmetic of the framework's layers.                             *)

\* Conv2D output length
ConvOut(n, k, s, padding) ==
    IF padding = "same" THEN (n + s - 1) \div s
    ELSE (n - k) \div s + 1

\* Conv2DTranspose output length
ConvTransposeOut(n, k, s, padding) ==
    IF padding = "same" THEN n * s
    ELSE n * s + Max(k - s, 0)

ApplyLayer(l, shape) ==
    IF l.kind = "Conv2D"
    THEN <<ConvOut(shape[1], l.size, l.strides, l.padding),
           ConvOut(shape[2], l.size, l.strides, l.padding), l.filters>>
    ELSE IF l.kind = "Conv2DTranspose"
    THEN <<ConvTransposeOut(shape[1], l.size, l.strides, l.padding),
           ConvTransposeOut(shape[2], l.size, l.strides, l.padding), l.filters>>
    ELSE shape

RECURSIVE ApplyLayers(_, _)
ApplyLayers(layers, shape) ==
    IF layers = <<>> THEN shape
    ELSE ApplyLayers(Tail(layers), ApplyLayer(Head(layers), shape))

\* calling a Sequential block on a tensor
ApplyBlock(block, shape) == ApplyLayers(block.layers, shape)

\* Concatenate()([a, b]) is defined when all axes but the last agree
ConcatOk(a, b) == a[1] = b[1] /\ a[2] = b[2]
Concat(a, b) == <<a[1], a[2], a[3] + b[3]>>

----------------------------------------------------------------------------
(* downsample and upsample                                                 *)

downsample_layers_always_bn(filters, size, apply_batchnorm) ==
    << Layer("Conv2D", filters, size, 2, "same", FALSE, "random_normal", "none", 0),
       Plain("BatchNormalization", 0),
       Plain("LeakyReLU", 0) >>

downsample_layers(filters, size, apply_batchnorm) ==
    << Layer("Conv2D", filters, size, 2, "same", FALSE, "random_normal", "none", 0) >>
    \o (IF apply_batchnorm THEN << Plain("BatchNormalization", 0) >> ELSE << >>)
    \o << Plain("LeakyReLU", 0) >>

\* a cache keyed by the arguments instead of a fresh construction
downsample_cached(filters, size, apply_batchnorm, base) ==
    [id |-> filters,
     layers |-> AssignIds(downsample_layers(filters, size, apply_batchnorm), filters)]

downsample(filters, size, apply_batchnorm, base) ==
    [id |-> base + 1,
     layers |-> AssignIds(downsample_layers(filters, size, apply_batchnorm), base + 1)]

upsample_layers_bn_optional(filters, size, apply_dropout) ==
    << Layer("Conv2DTranspose", filters, size, 2, "same", FALSE, "random_normal", "none", 0) >>
    \o (IF apply_dropout THEN << Plain("Dropout", 5) >>
        ELSE << Plain("BatchNormalization", 0) >>)
    \o << Plain("ReLU", 0) >>

upsample_layers(filters, size, apply_dropout) ==
    << Layer("Conv2DTranspose", filters, size, 2, "same", FALSE, "random_normal", "none", 0),
       Plain("BatchNormalization", 0) >>
    \o (IF apply_dropout THEN << Plain("Dropout", 5) >> ELSE << >>)
    \o << Plain("ReLU", 0) >>

upsample(filters, size, apply_dropout, base) ==
    [id |-> base + 1,
     layers |-> AssignIds(upsample_layers(filters, size, apply_dropout), base + 1)]

\* the number of objects a block consists of: the Sequential and its layers
Objects(block) == 1 + Len(block.layers)

NoBlock == [id |-> 0, layers |-> << >>]

----------------------------------------------------------------------------
(* The literals of create_g1_firegan_unet                                  *)

G1InputOdd == <<380, 512, 3>>

G1Input == <<384, 512, 3>>

\* <<filters, size, apply_batchnorm>> of the down_stack entries
DownArgs ==
    << <<64, 4, FALSE>>, <<128, 4, TRUE>>, <<256, 4, TRUE>>, <<512, 4, TRUE>>,
       <<512, 4, TRUE>>, <<512, 4, TRUE>>, <<512, 4, TRUE>> >>

\* the fourth entry copied from the third without lowering the filters
UpArgsFourth512 ==
    << <<512, 4, TRUE>>, <<512, 4, TRUE>>, <<512, 4, TRUE>>,
       <<512, 4, FALSE>>, <<128, 4, FALSE>>, <<64, 4, FALSE>> >>

\* <<filters, size, apply_dropout>> of the up_stack entries
UpArgs ==
    << <<512, 4, TRUE>>, <<512, 4, TRUE>>, <<512, 4, TRUE>>,
       <<256, 4, FALSE>>, <<128, 4, FALSE>>, <<64, 4, FALSE>> >>

LastLayerStride1 ==
    Layer("Conv2DTranspose", 3, 4, 1, "same", TRUE, "random_normal", "tanh", 0)

LastLayer ==
    Layer("Conv2DTranspose", 3, 4, 2, "same", TRUE, "random_normal", "tanh", 0)

\* the shapes written beside the entries of down_stack, of up_stack and
\* beside last
DownAnnotations ==
    << <<128, 128, 64>>, <<64, 64, 128>>, <<32, 32, 256>>, <<16, 16, 512>>,
       <<8, 8, 512>>, <<4, 4, 512>>, <<2, 2, 512>> >>

UpAnnotations ==
    << <<2, 2, 1024>>, <<4, 4, 1024>>, <<8, 8, 1024>>,
       <<32, 32, 512>>, <<64, 64, 256>>, <<128, 128, 128>> >>

LastAnnotation == <<256, 256, 3>>

Reverse(s) == [k \in 1..Len(s) |-> s[Len(s) + 1 - k]]

\* reversed(skips) without the slice
ReversedAll(s) == Reverse(s)

\* reversed(skips[:-1])
ReversedAllButLast(s) == Reverse(SubSeq(s, 1, Len(s) - 1))

----------------------------------------------------------------------------
(* The literals of create_g2_firegan                                       *)

G2Input == <<384, 512, 6>>

G2Conv(kind, filters, size, activation) ==
    Layer(kind, filters, size, 1, "valid", TRUE, "he_uniform", activation, 0)

\* the arguments of the generator2.add calls of the else branch
G2BranchFalse ==
    << G2Conv("Conv2DTranspose", 256, 5, "none"),
       Plain("BatchNormalization", 0), Plain("LeakyReLU", 2),
       G2Conv("Conv2D", 128, 5, "none"),
       Plain("BatchNormalization", 0), Plain("LeakyReLU", 2),
       G2Conv("Conv2DTranspose", 64, 3, "none"),
       Plain("BatchNormalization", 0), Plain("LeakyReLU", 2),
       G2Conv("Conv2D", 32, 3, "none"),
       Plain("BatchNormalization", 0), Plain("LeakyReLU", 2),
       G2Conv("Conv2D", 3, 1, "tanh") >>

G2BranchTrueDrifted ==
    << SpectralNormalization(G2Conv("Conv2DTranspose", 256, 5, "none")),
       Plain("BatchNormalization", 0), Plain("LeakyReLU", 2),
       SpectralNormalization(G2Conv("Conv2D", 128, 5, "none")),
       Plain("BatchNormalization", 0), Plain("LeakyReLU", 2),
       SpectralNormalization(G2Conv("Conv2DTranspose", 64, 5, "none")),
       Plain("BatchNormalization", 0), Plain("LeakyReLU", 2),
       SpectralNormalization(G2Conv("Conv2D", 32, 3, "none")),
       Plain("BatchNormalization", 0), Plain("LeakyReLU", 2),
       SpectralNormalization(G2Conv("Conv2D", 3, 1, "tanh")) >>

\* the arguments of the generator2.add calls of the if branch
G2BranchTrue ==
    << SpectralNormalization(G2Conv("Conv2DTranspose", 256, 5, "none")),
       Plain("BatchNormalization", 0), Plain("LeakyReLU", 2),
       SpectralNormalization(G2Conv("Conv2D", 128, 5, "none")),
       Plain("BatchNormalization", 0), Plain("LeakyReLU", 2),
       SpectralNormalization(G2Conv("Conv2DTranspose", 64, 3, "none")),
       Plain("BatchNormalization", 0), Plain("LeakyReLU", 2),
       SpectralNormalization(G2Conv("Conv2D", 32, 3, "none")),
       Plain("BatchNormalization", 0), Plain("LeakyReLU", 2),
       SpectralNormalization(G2Conv("Conv2D", 3, 1, "tanh")) >>

\* evaluating the argument of one generator2.add call raises NameError when
\* it names a wrapper the module never bound
RaisesNameError(stmt) ==
    stmt.wrap # "none" /\ stmt.wrap \notin ModuleNames

EraseWrapper(stmtSeq) == [k \in 1..Len(stmtSeq) |-> [stmtSeq[k] EXCEPT !.wrap = "none"]]

----------------------------------------------------------------------------
(* State                                                                   *)

VARIABLES
    pc,             \* position of the session: "idle" or inside a function
    spectral_norm,  \* argument of the running create_g2_firegan call
    nextId,         \* number of layer objects constructed so far
    down_stack,     \* create_g1_firegan_unet: list of down blocks
    up_stack,       \* create_g1_firegan_unet: list of up blocks
    last,           \* create_g1_firegan_unet: final transposed convolution
    concats,        \* create_g1_firegan_unet: Concatenate layers constructed
    x,              \* current tensor (shape)
    skips,          \* stored down outputs: [from, shape]
    it,             \* position of the zip over up_stack and skips
    generator2,     \* create_g2_firegan: the Sequential under construction
    stmts,          \* create_g2_firegan: add-arguments of the branch taken
    graph,          \* layer calls made on tensors by the running function
    results         \* outcomes of the calls that ended

vars == <<pc, spectral_norm, nextId, down_stack, up_stack, last, concats, x,
          skips, it, generator2, stmts, graph, results>>

NoShape == <<0, 0, 0>>

Node(op, idx, obj, skip, inp, skipshape, out) ==
    [op |-> op, idx |-> idx, obj |-> obj, skip |-> skip, inp |-> inp,
     skipshape |-> skipshape, out |-> out]

Result(fn, args, status, blocks, singles, g, output) ==
    [fn |-> fn, args |-> args, status |-> status, blocks |-> blocks,
     singles |-> singles, graph |-> g, output |-> output]

\* the locals of a function vanish when it returns or raises
Reset ==
    /\ spectral_norm' = FALSE
    /\ down_stack' = << >>
    /\ up_stack' = << >>
    /\ last' = NoLayer
    /\ concats' = << >>
    /\ x' = NoShape
    /\ skips' = << >>
    /\ it' = 0
    /\ generator2' = NoBlock
    /\ stmts' = << >>
    /\ graph' = << >>

Init ==
    /\ pc = "idle"
    /\ nextId = 0
    /\ results = << >>
    /\ spectral_norm = FALSE
    /\ down_stack = << >>
    /\ up_stack = << >>
    /\ last = NoLayer
    /\ concats = << >>
    /\ x = NoShape
    /\ skips = << >>
    /\ it = 0
    /\ generator2 = NoBlock
    /\ stmts = << >>
    /\ graph = << >>

CanCall == pc = "idle" /\ Len(results) < MaxCalls

----------------------------------------------------------------------------
(* Direct calls of the helper factories                                    *)

call_downsample ==
    /\ CanCall
    /\ \E filters \in FilterArgs, size \in SizeArgs, apply_batchnorm \in BOOLEAN :
         LET block == downsample(filters, size, apply_batchnorm, nextId) IN
         /\ nextId' = nextId + Objects(block)
         /\ results' = Append(results,
                Result("downsample", <<filters, size, apply_batchnorm>>, "returned",
                       <<block>>, << >>, << >>, NoShape))
    /\ UNCHANGED <<pc, spectral_norm, down_stack, up_stack, last, concats, x,
                   skips, it, generator2, stmts, graph>>

call_upsample ==
    /\ CanCall
    /\ \E filters \in FilterArgs, size \in SizeArgs, apply_dropout \in BOOLEAN :
         LET block == upsample(filters, size, apply_dropout, nextId) IN
         /\ nextId' = nextId + Objects(block)
         /\ results' = Append(results,
                Result("upsample", <<filters, size, apply_dropout>>, "returned",
                       <<block>>, << >>, << >>, NoShape))
    /\ UNCHANGED <<pc, spectral_norm, down_stack, up_stack, last, concats, x,
                   skips, it, generator2, stmts, graph>>

----------------------------------------------------------------------------
(* create_g1_firegan_unet                                                  *)

\* inputs = Input(shape=[384, 512, 3])
g1_call ==
    /\ CanCall
    /\ pc' = "g1_down_stack"
    /\ UNCHANGED <<spectral_norm, nextId, down_stack, up_stack, last, concats,
                   x, skips, it, generator2, stmts, graph, results>>

\* one entry of the down_stack list
g1_down_stack ==
    /\ pc = "g1_down_stack"
    /\ LET a == DownArgs[Len(down_stack) + 1]
           block == downsample(a[1], a[2], a[3], nextId) IN
       /\ down_stack' = Append(down_stack, block)
       /\ nextId' = nextId + Objects(block)
       /\ pc' = IF Len(down_stack) + 1 = Len(DownArgs)
                THEN "g1_up_stack" ELSE "g1_down_stack"
    /\ UNCHANGED <<spectral_norm, up_stack, last, concats, x, skips, it,
                   generator2, stmts, graph, results>>

\* one entry of the up_stack list
g1_up_stack ==
    /\ pc = "g1_up_stack"
    /\ LET a == UpArgs[Len(up_stack) + 1]
           block == upsample(a[1], a[2], a[3], nextId) IN
       /\ up_stack' = Append(up_stack, block)
       /\ nextId' = nextId + Objects(block)
       /\ pc' = IF Len(up_stack) + 1 = Len(UpArgs)
                THEN "g1_last" ELSE "g1_up_stack"
    /\ UNCHANGED <<spectral_norm, down_stack, last, concats, x, skips, it,
                   generator2, stmts, graph, results>>

\* last = Conv2DTranspose(...); x = inputs; skips = []
g1_last ==
    /\ pc = "g1_last"
    /\ last' = [LastLayer EXCEPT !.id = nextId + 1]
    /\ nextId' = nextId + 1
    /\ x' = G1Input
    /\ skips' = << >>
    /\ pc' = "g1_down_loop"
    /\ UNCHANGED <<spectral_norm, down_stack, up_stack, concats, it,
                   generator2, stmts, graph, results>>

\* for down in down_stack: x = down(x); skips.append(x)
g1_down_loop ==
    /\ pc = "g1_down_loop"
    /\ Len(skips) < Len(down_stack)
    /\ LET i == Len(skips) + 1
           out == ApplyBlock(down_stack[i], x) IN
       /\ x' = out
       /\ skips' = Append(skips, [from |-> i, shape |-> out])
       /\ graph' = Append(graph,
              Node("down", i, down_stack[i].id, 0, x, NoShape, out))
    /\ UNCHANGED <<pc, spectral_norm, nextId, down_stack, up_stack, last,
                   concats, it, generator2, stmts, results>>

\* skips = reversed(skips[:-1])
g1_reverse_skips ==
    /\ pc = "g1_down_loop"
    /\ Len(skips) = Len(down_stack)
    /\ skips' = ReversedAllButLast(skips)
    /\ it' = 1
    /\ pc' = "g1_up_loop"
    /\ UNCHANGED <<spectral_norm, nextId, down_stack, up_stack, last, concats,
                   x, generator2, stmts, graph, results>>

\* the zip ends with the shorter of its two arguments
ZipLen == Min(Len(up_stack), Len(skips))

G1Blocks == down_stack \o up_stack

\* for up, skip in zip(up_stack, skips): x = up(x); x = Concatenate()([x, skip])
g1_up_loop ==
    /\ pc = "g1_up_loop"
    /\ it <= ZipLen
    /\ LET up == ApplyBlock(up_stack[it], x)
           skip == skips[it]
           cat == [Plain("Concatenate", 0) EXCEPT !.id = nextId + 1]
           upNode == Node("up", it, up_stack[it].id, 0, x, NoShape, up)
       IN
       /\ nextId' = nextId + 1
       /\ IF ConcatOk(up, skip.shape)
          THEN /\ x' = Concat(up, skip.shape)
               /\ concats' = Append(concats, cat)
               /\ graph' = graph \o
                    << upNode,
                       Node("concat", it, cat.id, skip.from, up, skip.shape,
                            Concat(up, skip.shape)) >>
               /\ it' = it + 1
               /\ UNCHANGED <<pc, spectral_norm, down_stack, up_stack, last,
                              skips, generator2, stmts, results>>
          ELSE \* ValueError from the framework
               /\ results' = Append(results,
                      Result("create_g1_firegan_unet", << >>, "raised",
                             G1Blocks, <<last>> \o Append(concats, cat),
                             Append(graph, upNode), NoShape))
               /\ pc' = "idle"
               /\ Reset

\* x = last(x); Model(inputs, x); summary(); return
g1_return ==
    /\ pc = "g1_up_loop"
    /\ it > ZipLen
    /\ LET out == ApplyLayer(last, x) IN
       results' = Append(results,
           Result("create_g1_firegan_unet", << >>, "returned",
                  G1Blocks, <<last>> \o concats,
                  Append(graph, Node("last", 1, last.id, 0, x, NoShape, out)),
                  out))
    /\ pc' = "idle"
    /\ Reset
    /\ UNCHANGED nextId

----------------------------------------------------------------------------
(* create_g2_firegan                                                       *)

\* if(spectral_norm): ... else: ...; generator2 = Sequential(); add(Input)
g2_call ==
    /\ CanCall
    /\ \E flag \in BOOLEAN :
         /\ spectral_norm' = flag
         /\ stmts' = IF flag THEN G2BranchTrue ELSE G2BranchFalse
    /\ generator2' = [id |-> nextId + 1, layers |-> << >>]
    /\ nextId' = nextId + 1
    /\ x' = G2Input
    /\ pc' = "g2_add"
    /\ UNCHANGED <<down_stack, up_stack, last, concats, skips, it, graph,
                   results>>

\* one generator2.add(...) statement of the branch taken
g2_add ==
    /\ pc = "g2_add"
    /\ Len(generator2.layers) < Len(stmts)
    /\ LET i == Len(generator2.layers) + 1
           stmt == stmts[i]
           layer == [stmt EXCEPT !.id = nextId + 1]
           out == ApplyLayer(layer, x) IN
       IF RaisesNameError(stmt)
       THEN /\ results' = Append(results,
                   Result("create_g2_firegan", <<spectral_norm>>, "raised",
                          <<generator2>>, << >>, graph, NoShape))
            /\ pc' = "idle"
            /\ Reset
            /\ UNCHANGED nextId
       ELSE /\ generator2' = [generator2 EXCEPT !.layers = Append(@, layer)]
            /\ nextId' = nextId + 1
            /\ x' = out
            /\ graph' = Append(graph, Node("add", i, layer.id, 0, x, NoShape, out))
            /\ UNCHANGED <<pc, spectral_norm, down_stack, up_stack, last,
                           concats, skips, it, stmts, results>>

\* generator2.summary(); return generator2
g2_return ==
    /\ pc = "g2_add"
    /\ Len(generator2.layers) = Len(stmts)
    /\ results' = Append(results,
           Result("create_g2_firegan", <<spectral_norm>>, "returned",
                  <<generator2>>, << >>, graph, x))
    /\ pc' = "idle"
    /\ Reset
    /\ UNCHANGED nextId

----------------------------------------------------------------------------

Next ==
    \/ call_downsample
    \/ call_upsample
    \/ g1_call
    \/ g1_down_stack
    \/ g1_up_stack
    \/ g1_last
    \/ g1_down_loop
    \/ g1_reverse_skips
    \/ g1_up_loop
    \/ g1_return
    \/ g2_call
    \/ g2_add
    \/ g2_return

Spec == Init /\ [][Next]_vars

----------------------------------------------------------------------------
(* Views of the state used by the properties                               *)

G1Name == "create_g1_firegan_unet"
G2Name == "create_g2_firegan"

InG1 == pc \in {"g1_down_stack", "g1_up_stack", "g1_last", "g1_down_loop", "g1_up_loop"}

Ended(fn) == {r \in 1..Len(results) : results[r].fn = fn}

\* the layer-call graphs of Generator 1: of the ended calls and of a
\* running one
G1Graphs ==
    {results[r].graph : r \in Ended(G1Name)} \cup (IF InG1 THEN {graph} ELSE {})

Spatial(shape) == <<shape[1], shape[2]>>

Kinds(layers) == [k \in 1..Len(layers) |-> layers[k].kind]

\* <<op, idx, skip>> of every node
Calls(g) == [k \in 1..Len(g) |-> <<g[k].op, g[k].idx, g[k].skip>>]

Outs(g) == [k \in 1..Len(g) |-> g[k].out]

IsPrefix(s, t) == Len(s) <= Len(t) /\ s = SubSeq(t, 1, Len(s))

OfOp(g, op) == {k \in 1..Len(g) : g[k].op = op}

----------------------------------------------------------------------------
(* C1: in create_g1_firegan_unet with the input of 384 x 512, at each of   *)
(* the six skip concatenations the up-sampled tensor and the stored down   *)
(* output have the same height and width: every down block halves height   *)
(* and width without remainder, every up block doubles them, and no call   *)
(* ends in a shape error.                                                  *)
C1_SkipShapesAgree ==
    /\ \A r \in Ended(G1Name) :
         /\ results[r].status = "returned"
         /\ Cardinality(OfOp(results[r].graph, "concat")) = 6
    /\ \A g \in G1Graphs : \A k \in 1..Len(g) :
         /\ g[k].op = "concat" => Spatial(g[k].inp) = Spatial(g[k].skipshape)
         /\ g[k].op = "down" =>
              /\ 2 * g[k].out[1] = g[k].inp[1]
              /\ 2 * g[k].out[2] = g[k].inp[2]
         /\ g[k].op = "up" =>
              /\ g[k].out[1] = 2 * g[k].inp[1]
              /\ g[k].out[2] = 2 * g[k].inp[2]
    /\ (pc = "g1_up_loop" /\ it <= ZipLen) =>
         ConcatOk(ApplyBlock(up_stack[it], x), skips[it].shape)

C1_Witness ==
    \E r \in Ended(G1Name) :
        /\ results[r].status = "returned"
        /\ \E k \in OfOp(results[r].graph, "concat") :
             /\ results[r].graph[k].idx = 6
             /\ Spatial(results[r].graph[k].skipshape) = <<192, 256>>

----------------------------------------------------------------------------
(* C2: create_g1_firegan_unet applies the seven down blocks in declared    *)
(* order, once each, storing each output; then the six up blocks in        *)
(* declared order, each followed by the concatenation with the output of   *)
(* down block 7-k; then the final transposed convolution.  The output of   *)
(* down block 7 is never a skip, the others are a skip exactly once, and   *)
(* the zip drops no up block and no skip.                                  *)
ExpectedCalls ==
    [k \in 1..7 |-> <<"down", k, 0>>]
    \o [j \in 1..12 |-> IF j % 2 = 1 THEN <<"up", (j + 1) \div 2, 0>>
                        ELSE <<"concat", j \div 2, 7 - j \div 2>>]
    \o << <<"last", 1, 0>> >>

AppliesDeclared(g, k, blocks) ==
    LET n == g[k] IN
    /\ n.op = "down" =>
         /\ n.obj = blocks[n.idx].id
         /\ blocks[n.idx].layers[1].filters = DownArgs[n.idx][1]
    /\ n.op = "up" =>
         /\ n.obj = blocks[7 + n.idx].id
         /\ blocks[7 + n.idx].layers[1].filters = UpArgs[n.idx][1]

C2_BlockOrder ==
    /\ \A r \in Ended(G1Name) :
         /\ Calls(results[r].graph) = ExpectedCalls
         /\ \A k \in 1..Len(results[r].graph) :
              AppliesDeclared(results[r].graph, k, results[r].blocks)
    /\ InG1 =>
         /\ IsPrefix(Calls(graph), ExpectedCalls)
         /\ \A k \in 1..Len(graph) : AppliesDeclared(graph, k, G1Blocks)
    /\ pc = "g1_down_loop" =>
         \A k \in 1..Len(skips) :
            skips[k].from = k /\ skips[k].shape = graph[k].out
    /\ pc = "g1_up_loop" =>
         /\ Len(up_stack) = 6
         /\ Len(skips) = Len(up_stack)
         /\ \A k \in 1..Len(skips) : skips[k].from = 7 - k

C2_Witness ==
    \E r \in Ended(G1Name) :
        /\ Len(results[r].graph) = 20
        /\ results[r].graph[20].op = "last"
        /\ {results[r].graph[k].skip : k \in OfOp(results[r].graph, "concat")} = 1..6

----------------------------------------------------------------------------
(* C3: create_g2_firegan runs to completion and returns the model for      *)
(* spectral_norm = True as well as for False; with True each of the five   *)
(* convolution layers is wrapped in spectral normalization, with False     *)
(* none is.                                                                *)
ConvLayers(block) == {k \in 1..Len(block.layers) : IsConv(block.layers[k])}

C3_BothFlagsComplete ==
    \A r \in Ended(G2Name) :
        LET g2 == results[r].blocks[1] IN
        /\ results[r].status = "returned"
        /\ Cardinality(ConvLayers(g2)) = 5
        /\ \A k \in ConvLayers(g2) :
             (g2.layers[k].wrap = "SpectralNormalization") = results[r].args[1]

----------------------------------------------------------------------------
(* C4: both branches of create_g2_firegan declare the same linear stack:   *)
(* transposed-conv(256, 5x5), conv(128, 5x5), transposed-conv(64, 3x3),    *)
(* conv(32, 3x3), conv(3, 1x1), all stride 1, 'valid', with bias; the      *)
(* first four followed by batch normalization and LeakyReLU(0.2), the      *)
(* fifth with tanh and nothing after it.  Erasing the wrapper from the     *)
(* True branch gives the False branch.                                     *)
G2Blocks ==
    << <<"Conv2DTranspose", 256, 5>>, <<"Conv2D", 128, 5>>,
       <<"Conv2DTranspose", 64, 3>>, <<"Conv2D", 32, 3>>, <<"Conv2D", 3, 1>> >>

DeclaresG2Stack(ss) ==
    /\ Len(ss) = 13
    /\ \A b \in 1..5 :
         LET c == ss[3 * b - 2] IN
         /\ <<c.kind, c.filters, c.size>> = G2Blocks[b]
         /\ c.strides = 1 /\ c.padding = "valid" /\ c.use_bias
         /\ c.activation = IF b = 5 THEN "tanh" ELSE "none"
    /\ \A b \in 1..4 :
         /\ ss[3 * b - 1].kind = "BatchNormalization"
         /\ ss[3 * b].kind = "LeakyReLU" /\ ss[3 * b].param = 2

C4_BranchesDeclareSameStack ==
    pc = "g2_add" =>
        /\ DeclaresG2Stack(stmts)
        /\ EraseWrapper(stmts) = G2BranchFalse
        /\ EraseWrapper(stmts) = EraseWrapper(G2BranchTrue)

C4_Witness ==
    /\ pc = "g2_add"
    /\ spectral_norm
    /\ \E k \in 1..Len(stmts) : stmts[k].wrap = "SpectralNormalization"

----------------------------------------------------------------------------
(* C5: downsample returns a stride-2 'same' bias-free convolution, then    *)
(* batch normalization iff apply_batchnorm, then LeakyReLU: 3 layers with  *)
(* the flag, 2 without; in create_g1_firegan_unet only the first down      *)
(* block has no batch normalization.                                       *)
IsDownBlock(block, apply_batchnorm) ==
    /\ Kinds(block.layers) =
         IF apply_batchnorm THEN <<"Conv2D", "BatchNormalization", "LeakyReLU">>
         ELSE <<"Conv2D", "LeakyReLU">>
    /\ Len(block.layers) = IF apply_batchnorm THEN 3 ELSE 2
    /\ block.layers[1].strides = 2
    /\ block.layers[1].padding = "same"
    /\ ~block.layers[1].use_bias

C5_DownsampleLayers ==
    /\ \A r \in Ended("downsample") :
         /\ IsDownBlock(results[r].blocks[1], results[r].args[3])
         /\ results[r].blocks[1].layers[1].filters = results[r].args[1]
         /\ results[r].blocks[1].layers[1].size = results[r].args[2]
    /\ \A k \in 1..Len(down_stack) : IsDownBlock(down_stack[k], k # 1)
    /\ \A r \in Ended(G1Name) :
         \A k \in 1..7 : IsDownBlock(results[r].blocks[k], k # 1)

C5_Witness ==
    /\ Len(down_stack) = 7
    /\ \E r \in Ended("downsample") :
         ~results[r].args[3] /\ Len(results[r].blocks[1].layers) = 2

----------------------------------------------------------------------------
(* C6: upsample returns a stride-2 'same' bias-free transposed             *)
(* convolution, batch normalization whatever the flag, Dropout(0.5) iff    *)
(* apply_dropout, then ReLU; in create_g1_firegan_unet exactly the first   *)
(* three up blocks have dropout.                                           *)
IsUpBlock(block, apply_dropout) ==
    /\ Kinds(block.layers) =
         IF apply_dropout
         THEN <<"Conv2DTranspose", "BatchNormalization", "Dropout", "ReLU">>
         ELSE <<"Conv2DTranspose", "BatchNormalization", "ReLU">>
    /\ block.layers[1].strides = 2
    /\ block.layers[1].padding = "same"
    /\ ~block.layers[1].use_bias
    /\ apply_dropout => block.layers[3].param = 5

----------------------------------------------------------------------------
(* C7: the shapes the blocks of create_g1_firegan_unet produce.            *)

ShapesAre(g, downs, cats, final) ==
    \A k \in 1..Len(g) :
        /\ g[k].op = "down" => g[k].out = downs[g[k].idx]
        /\ g[k].op = "concat" => g[k].out = cats[g[k].idx]
        /\ g[k].op = "last" => g[k].out = final

DownShapes ==
    << <<192, 256, 64>>, <<96, 128, 128>>, <<48, 64, 256>>, <<24, 32, 512>>,
       <<12, 16, 512>>, <<6, 8, 512>>, <<3, 4, 512>> >>

UpShapes ==
    << <<6, 8, 1024>>, <<12, 16, 1024>>, <<24, 32, 1024>>,
       <<48, 64, 512>>, <<96, 128, 256>>, <<192, 256, 128>> >>

----------------------------------------------------------------------------
(* C8: the shape trace of a create_g1_firegan_unet call is, after the down *)
(* blocks, (192,256,64) ... (3,4,512); after each up block and its         *)
(* concatenation (6,8,1024) ... (192,256,128), every concatenation having  *)
(* twice the channels of its up block; and the output is (384,512,3), the  *)
(* shape of the input.                                                     *)
IsOutput(n) == n.op \in {"down", "concat", "last"}

----------------------------------------------------------------------------
(* C9: for either flag value the input (384,512,6) of create_g2_firegan    *)
(* passes through the five blocks with shapes (388,516,256),               *)
(* (384,512,128), (386,514,64), (384,512,32), (384,512,3); height and      *)
(* width never fall below 384 x 512 and the output has the input's height  *)
(* and width with 3 channels.                                              *)
G2Shapes ==
    << <<388, 516, 256>>, <<384, 512, 128>>, <<386, 514, 64>>,
       <<384, 512, 32>>, <<384, 512, 3>> >>

C9_G2ShapeTrace ==
    /\ \A r \in Ended(G2Name) :
         LET g == results[r].graph IN
         /\ Len(g) = 13
         /\ [b \in 1..5 |-> g[3 * b - 2].out] = G2Shapes
         /\ results[r].output = <<G2Input[1], G2Input[2], 3>>
    /\ pc = "g2_add" => x[1] >= 384 /\ x[2] >= 512

----------------------------------------------------------------------------
(* C10: every call builds fresh layer objects: no layer instance belongs   *)
(* to two blocks of one model nor to the values of two calls, and two      *)
(* calls with the same arguments give the same layer topology.             *)
BlockIds(block) == <<block.id>> \o [k \in 1..Len(block.layers) |-> block.layers[k].id]

RECURSIVE BlocksIds(_)
BlocksIds(blocks) ==
    IF blocks = << >> THEN << >>
    ELSE BlockIds(Head(blocks)) \o BlocksIds(Tail(blocks))

LayersIds(layers) == [k \in 1..Len(layers) |-> layers[k].id]

ResultIds(r) == BlocksIds(r.blocks) \o LayersIds(r.singles)

RECURSIVE ResultsIds(_)
ResultsIds(rs) ==
    IF rs = << >> THEN << >>
    ELSE ResultIds(Head(rs)) \o ResultsIds(Tail(rs))

\* the identities of all layer objects alive: of the ended calls' values and
\* of the running call's locals
LiveIds ==
    ResultsIds(results) \o BlocksIds(G1Blocks) \o LayersIds(concats)
    \o (IF last = NoLayer THEN << >> ELSE <<last.id>>)
    \o (IF generator2 = NoBlock THEN << >> ELSE BlockIds(generator2))

NoDuplicates(seq) == Cardinality({seq[k] : k \in 1..Len(seq)}) = Len(seq)

EraseIds(layers) == [k \in 1..Len(layers) |-> [layers[k] EXCEPT !.id = 0]]

\* a call's value with the object identities erased
Topology(r) ==
    [status |-> r.status,
     blocks |-> [k \in 1..Len(r.blocks) |-> EraseIds(r.blocks[k].layers)],
     singles |-> EraseIds(r.singles),
     graph |-> [k \in 1..Len(r.graph) |-> [r.graph[k] EXCEPT !.obj = 0]],
     output |-> r.output]

C10_FreshLayers ==
    /\ NoDuplicates(LiveIds)
    /\ \A k \in 1..Len(LiveIds) : LiveIds[k] \in 1..nextId
    /\ \A r1, r2 \in 1..Len(results) :
         (results[r1].fn = results[r2].fn /\ results[r1].args = results[r2].args)
            => Topology(results[r1]) = Topology(results[r2])

C10_Witness ==
    \E r1, r2 \in Ended(G1Name) :
        /\ r1 # r2
        /\ results[r1].blocks[4].layers[1].filters = 512
        /\ results[r1].blocks[5].layers[1].filters = 512
        /\ results[r1].blocks[4].id # results[r1].blocks[5].id
        /\ results[r1].blocks[4].id # results[r2].blocks[4].id

====
